---- MODULE Spec2Model ----
(***************************************************************************)
(* A model of the pyrust-check front end: the byte-offset to line/column   *)
(* translation, the parser adapter around the external grammar parser,     *)
(* the diagnostic type with its rendering, and the command dispatcher.     *)
(*                                                                         *)
(* Four specifications share the module's variables:                       *)
(*   SpecPos    offset_to_line_col applied to bounded texts and offsets    *)
(*   Spec       sequences of parse_source / parse_file calls               *)
(*   SpecRender the Display rendering of every diagnostic variant          *)
(*   SpecCli    one run of the command-line process                        *)
(***************************************************************************)
EXTENDS Integers, Sequences, FiniteSets, TLC

VARIABLES
    src,        \* SpecPos: the source text handed to offset_to_line_col
    off,        \* SpecPos: the byte offset handed to offset_to_line_col
    lc,         \* SpecPos: the (line, column) returned, or NoValue before the call
    oracle,     \* the external grammar parser's answers given so far, by text
    last,       \* the latest adapter call: operation, arguments, outcome; NoCall before
    pinned,     \* an earlier parse_source call kept for comparison, or NoCall
    diag,       \* SpecRender: the diagnostic value to render
    rendered,   \* SpecRender: its Display text, or NoValue before rendering
    pc,         \* SpecCli: the position of the process
    cli,        \* SpecCli: the parsed command line
    stdout,     \* SpecCli: the lines written to the output stream
    stderr,     \* SpecCli: the lines written to the error stream
    exitCode    \* SpecCli: the exit status, or -1 while running

vars == <<src, off, lc, oracle, last, pinned, diag, rendered,
          pc, cli, stdout, stderr, exitCode>>

posVars == <<src, off, lc>>
libVars == <<oracle, last, pinned>>
renderVars == <<diag, rendered>>
cliVars == <<pc, cli, stdout, stderr, exitCode>>

NoValue == "none"

(***************************************************************************)
(* Source text.  A text is a sequence of characters; every character has   *)
(* a UTF-8 encoding of one or more bytes, and every offset of the program  *)
(* is an index into the encoded bytes.                                     *)
(***************************************************************************)
MaxLen == 4

NL == "\n"

\* An ASCII letter, the line terminator, and a character of two bytes.
Alphabet == {"a", NL, "U+00E9"}

Utf8(c) == IF c = "U+00E9" THEN <<"0xC3", "0xA9">> ELSE <<c>>

len_utf8(c) == Len(Utf8(c))

SeqsUpTo(S, n) == UNION {[1..k -> S] : k \in 0..n}

RECURSIVE Bytes(_)
Bytes(s) == IF s = <<>> THEN <<>> ELSE Utf8(Head(s)) \o Bytes(Tail(s))

ByteLen(s) == Len(Bytes(s))

\* str::char_indices: the byte index at which the j-th character (1-based) starts.
RECURSIVE char_index(_, _)
char_index(s, j) == IF j = 1 THEN 0 ELSE char_index(s, j - 1) + len_utf8(s[j - 1])

saturating_sub(a, b) == IF a >= b THEN a - b ELSE 0

(***************************************************************************)
(* offset_to_line_col.  scan is the for loop over source.char_indices():   *)
(* j is the character the iterator is at, line and last_line_start are the *)
(* loop's two locals; the result is their value when the loop ends.        *)
(***************************************************************************)
\* The loop without its `if i >= offset { break; }`.
RECURSIVE scan_no_break(_, _, _, _, _)
scan_no_break(source, offset, j, line, last_line_start) ==
    IF j > Len(source) THEN <<line, last_line_start>>
    ELSE LET i == char_index(source, j)
             c == source[j]
         IN  IF c = NL THEN scan_no_break(source, offset, j + 1, line + 1, i + 1)
             ELSE scan_no_break(source, offset, j + 1, line, last_line_start)

RECURSIVE scan(_, _, _, _, _)
scan(source, offset, j, line, last_line_start) ==
    IF j > Len(source) THEN <<line, last_line_start>>
    ELSE LET i == char_index(source, j)
             c == source[j]
         IN  IF i >= offset THEN <<line, last_line_start>>
             ELSE IF c = NL THEN scan(source, offset, j + 1, line + 1, i + 1)
             ELSE scan(source, offset, j + 1, line, last_line_start)

\* The column counted in characters instead of bytes.
offset_to_line_col_char_count(source, offset) ==
    IF offset = 0 THEN <<1, 0>>
    ELSE LET r == scan(source, offset, 1, 1, 0)
             chars == Cardinality({n \in 1..Len(source) :
                          /\ char_index(source, n) >= r[2]
                          /\ char_index(source, n) < offset})
         IN  <<r[1], chars>>

\* The early return giving a 0-based line.
offset_to_line_col_zero_based(source, offset) ==
    IF offset = 0 THEN <<0, 0>>
    ELSE LET r == scan(source, offset, 1, 1, 0)
         IN  <<r[1], saturating_sub(offset, r[2])>>

offset_to_line_col(source, offset) ==
    IF offset = 0 THEN <<1, 0>>
    ELSE LET r == scan(source, offset, 1, 1, 0)
         IN  <<r[1], saturating_sub(offset, r[2])>>

(***************************************************************************)
(* SpecPos: the translation applied to every text of at most MaxLen        *)
(* characters and every offset up to one past the end of its bytes.        *)
(***************************************************************************)
PosIdle == src = <<>> /\ off = 0 /\ lc = NoValue
NoCall == [op |-> "none"]
LibIdle == oracle = <<>> /\ last = NoCall /\ pinned = NoCall
RenderIdle == diag = NoValue /\ rendered = NoValue
CliIdle == /\ pc = NoValue /\ cli = NoValue /\ stdout = <<>> /\ stderr = <<>>
           /\ exitCode = -1

InitPos ==
    /\ src \in SeqsUpTo(Alphabet, MaxLen)
    /\ off \in 0..(ByteLen(src) + 1)
    /\ lc = NoValue
    /\ LibIdle /\ RenderIdle /\ CliIdle

Translate ==
    /\ lc = NoValue
    /\ lc' = offset_to_line_col(src, off)
    /\ UNCHANGED <<src, off, libVars, renderVars, cliVars>>

NextPos == Translate

SpecPos == InitPos /\ [][NextPos]_vars

\* The positions of the bytes of src, 0-based, that hold a line terminator and
\* lie strictly before offset o.
TerminatorsBefore(s, o) == {b \in 0..(ByteLen(s) - 1) : b < o /\ Bytes(s)[b + 1] = NL}

\* The byte index just after the last terminator before o; 0 when there is none.
LineStart(s, o) ==
    IF TerminatorsBefore(s, o) = {} THEN 0
    ELSE (CHOOSE b \in TerminatorsBefore(s, o) :
             \A b2 \in TerminatorsBefore(s, o) : b2 <= b) + 1

\* C1: with exactly k line terminators at byte indices strictly before the
\* offset, the returned line is k + 1.
C1_LineIsTerminatorsPlusOne ==
    lc # NoValue => lc[1] = Cardinality(TerminatorsBefore(src, off)) + 1

C1_Witness ==
    /\ lc # NoValue /\ off > 0
    /\ Cardinality(TerminatorsBefore(src, off)) = 2
    /\ \E n \in 1..Len(src) : src[n] = NL /\ char_index(src, n) >= off

\* C2: for an offset above 0 the returned column is the offset minus the byte
\* index just after the last terminator before it, never below 0.
C2_ColumnIsBytesFromLineStart ==
    (lc # NoValue /\ off > 0) =>
        lc[2] = (IF off >= LineStart(src, off) THEN off - LineStart(src, off) ELSE 0)

C2_Witness ==
    /\ lc # NoValue /\ off > 0
    /\ LineStart(src, off) > 0
    /\ \E n \in 1..Len(src) :
          /\ src[n] = "U+00E9"
          /\ char_index(src, n) >= LineStart(src, off)
          /\ char_index(src, n) < off
    /\ lc[2] >= 2

\* C3: offset 0 yields (1, 0) whatever the text is.
C3_OffsetZero ==
    (lc # NoValue /\ off = 0) => lc = <<1, 0>>

C3_Witness ==
    /\ lc # NoValue /\ off = 0
    /\ src # <<>> /\ src[1] = NL

(***************************************************************************)
(* Paths.  A path is the operating system's string, which need not be      *)
(* valid UTF-8: to_str gives the text of a valid one only, display         *)
(* replaces what cannot be decoded.                                        *)
(***************************************************************************)
Paths == {[os |-> "a.py", valid |-> TRUE, lossy |-> "a.py"],
          [os |-> "b\\xFF.py", valid |-> FALSE, lossy |-> "bU+FFFD.py"]}

\* Path::to_str(): Some(text) for a valid path, None otherwise.
to_str(path) == IF path.valid THEN path.os ELSE NoValue

unwrap_or(opt, default) == IF opt = NoValue THEN default ELSE opt

\* Path::display()
display(path) == IF path.valid THEN path.os ELSE path.lossy

(***************************************************************************)
(* Diagnostics: SourceLocation and the four variants of PyRustError, with  *)
(* the Display text each derives from its #[error(...)] attribute.         *)
(***************************************************************************)
MaxLine == 3
MaxCol == 2

Messages == {"invalid syntax", "unexpected EOF"}
Names == {"x", "foo"}

\* The Display texts of std::io::Error for the failures of fs::read_to_string.
IoErrors == {"No such file or directory (os error 2)",
             "Permission denied (os error 13)",
             "stream did not contain valid UTF-8"}

SourceLocation(file, line, column) == [file |-> file, line |-> line, column |-> column]

ParseError(location, message) ==
    [kind |-> "ParseError", location |-> location, message |-> message]

TypeError(location, message) ==
    [kind |-> "TypeError", location |-> location, message |-> message]

IoError(e) == [kind |-> "IoError", source |-> e]

UndefinedName(name, location) ==
    [kind |-> "UndefinedName", name |-> name, location |-> location]

\* The location written column first.
Display_SourceLocation_swapped(loc) ==
    display(loc.file) \o ":" \o ToString(loc.column) \o ":" \o ToString(loc.line)

\* impl Display for SourceLocation
Display_SourceLocation(loc) ==
    display(loc.file) \o ":" \o ToString(loc.line) \o ":" \o ToString(loc.column)

\* #[derive(Error)] on PyRustError: one format string per variant.
Display_PyRustError(e) ==
    CASE e.kind = "ParseError" ->
            "Parse error at " \o Display_SourceLocation(e.location) \o ": " \o e.message
      [] e.kind = "TypeError" ->
            "Type error at " \o Display_SourceLocation(e.location) \o ": " \o e.message
      [] e.kind = "IoError" ->
            "IO error: " \o e.source
      [] e.kind = "UndefinedName" ->
            "Undefined name '" \o e.name \o "' at " \o Display_SourceLocation(e.location)

Locations ==
    {SourceLocation(f, l, c) : f \in Paths, l \in 1..MaxLine, c \in 0..MaxCol}

Diagnostics ==
    {ParseError(loc, m) : loc \in Locations, m \in Messages}
    \cup {TypeError(loc, m) : loc \in Locations, m \in Messages}
    \cup {UndefinedName(n, loc) : n \in Names, loc \in Locations}
    \cup {IoError(e) : e \in IoErrors}

(***************************************************************************)
(* SpecRender: every diagnostic value of the bounded set, rendered.        *)
(***************************************************************************)
InitRender ==
    /\ diag \in Diagnostics
    /\ rendered = NoValue
    /\ PosIdle /\ LibIdle /\ CliIdle

Render ==
    /\ rendered = NoValue
    /\ rendered' = Display_PyRustError(diag)
    /\ UNCHANGED <<diag, posVars, libVars, cliVars>>

NextRender == Render

SpecRender == InitRender /\ [][NextRender]_vars

\* "<Kind> error at <file>:<line>:<column>: <message>"
Shape(kindWord, loc, message) ==
    kindWord \o " error at " \o display(loc.file) \o ":" \o ToString(loc.line)
        \o ":" \o ToString(loc.column) \o ": " \o message

\* The words that could stand for <Kind>, and the texts that could stand for
\* <message>, in the rendering of a variant.
KindWords(e) ==
    CASE e.kind = "ParseError" -> {"Parse"}
      [] e.kind = "TypeError" -> {"Type"}
      [] e.kind = "UndefinedName" ->
            {"UndefinedName", "Undefined name", "Undefined", "Name"}
      [] OTHER -> {}

MessageTexts(e) ==
    IF e.kind \in {"ParseError", "TypeError"} THEN {e.message}
    ELSE IF e.kind = "UndefinedName"
         THEN Messages \cup {"", e.name, "'" \o e.name \o "'"}
         ELSE {}

\* C8 as stated: every variant but IoError renders in the fixed shape, and
\* IoError renders the operating system's message and no location.
C8_AllNonIoInFixedShape ==
    rendered # NoValue =>
        IF diag.kind = "IoError"
        THEN rendered \in {diag.source, "IO error: " \o diag.source}
        ELSE \E k \in KindWords(diag), m \in MessageTexts(diag) :
                rendered = Shape(k, diag.location, m)

\* C8 as amended: ParseError and TypeError render in the fixed shape;
\* UndefinedName renders as "Undefined name '<name>' at <file>:<line>:<column>";
\* IoError renders as "IO error: " and the operating system's message, with no
\* location.
C8_RenderingPerVariant ==
    rendered # NoValue =>
        CASE diag.kind = "ParseError" ->
                rendered = Shape("Parse", diag.location, diag.message)
          [] diag.kind = "TypeError" ->
                rendered = Shape("Type", diag.location, diag.message)
          [] diag.kind = "UndefinedName" ->
                rendered = "Undefined name '" \o diag.name \o "' at "
                    \o display(diag.location.file) \o ":"
                    \o ToString(diag.location.line) \o ":"
                    \o ToString(diag.location.column)
          [] diag.kind = "IoError" ->
                rendered = "IO error: " \o diag.source

C8_Witness ==
    /\ diag = UndefinedName("foo", SourceLocation(CHOOSE p \in Paths : p.valid, 2, 1))
    /\ rendered = "Undefined name 'foo' at a.py:2:1"

(***************************************************************************)
(* The external grammar parser, rustpython_parser::parse.  It is a black   *)
(* box that answers a text with a tree (a Mod) or with a failure (byte     *)
(* offset, message); it is read-only, so it answers a text the same way    *)
(* every time: oracle remembers the answers given.  The adapter matches    *)
(* on every variant of Mod, so every variant is a possible answer.  The    *)
(* empty text is a module of no statements.                                *)
(***************************************************************************)
MaxBody == 2

\* Statement and expression nodes of the external tree, by kind.
StmtKinds == {"FunctionDef", "AnnAssign"}
ExprKinds == {"BinOp", "Name"}

Stmt(kind) == [node |-> kind]

\* ast::Stmt::Expr(ast::StmtExpr { range, value })
StmtExpr(range, value) == [node |-> "Expr", range |-> range, value |-> value]

TextRange_default == <<0, 0>>

Bodies == {[n \in DOMAIN ks |-> Stmt(ks[n])] : ks \in SeqsUpTo(StmtKinds, MaxBody)}

Mods ==
    {[variant |-> "Module", body |-> b] : b \in Bodies}
    \cup {[variant |-> "Expression", body |-> e] : e \in ExprKinds}
    \cup {[variant |-> "Interactive", body |-> b] : b \in {<<>>, <<Stmt("AnnAssign")>>}}
    \cup {[variant |-> "FunctionType", returns |-> e] : e \in {"Name"}}

\* What the external parser may answer to a text.
Answers(source) ==
    IF source = <<>> THEN {[ok |-> TRUE, mod |-> [variant |-> "Module", body |-> <<>>]]}
    ELSE {[ok |-> TRUE, mod |-> m] : m \in Mods}
         \cup {[ok |-> FALSE, offset |-> o, error |-> m] :
                  o \in 0..ByteLen(source), m \in Messages}

\* The texts the adapter is called with: the empty text, and a text of two
\* lines with a two-byte character on the second.
Sources == {<<>>, <<"a", NL, "U+00E9", "a">>}

\* The answer to source: the one given before, or any answer the first time.
AnswersNow(source) ==
    IF source \in DOMAIN oracle THEN {oracle[source]} ELSE Answers(source)

\* parse(source, mode, source_path): the answer, a failure carrying the
\* source_path it was called with.
parse(source, mode, source_path, answer) ==
    IF answer.ok THEN answer
    ELSE [ok |-> FALSE,
          err |-> [offset |-> answer.offset, error |-> answer.error,
                   source_path |-> source_path]]

Ok(v) == [ok |-> TRUE, value |-> v]
Err(e) == [ok |-> FALSE, error |-> e]

(***************************************************************************)
(* The parser adapter.  parse_source and parse_file give their result and  *)
(* the texts they handed to the external parser, in order.                 *)
(***************************************************************************)
\* The location's file taken from the parser's source_path.
convert_parse_error_source_path(error, source, path) ==
    LET lcol == offset_to_line_col(source, error.offset)
    IN  ParseError(SourceLocation([os |-> error.source_path, valid |-> TRUE,
                                   lossy |-> error.source_path],
                                  lcol[1], lcol[2]),
                   error.error)

convert_parse_error(error, source, path) ==
    LET offset == error.offset
        lcol == offset_to_line_col(source, offset)
        location == SourceLocation(path, lcol[1], lcol[2])
    IN  ParseError(location, error.error)

Reverse(s) == [n \in DOMAIN s |-> s[Len(s) + 1 - n]]

\* The module's statements returned in reverse order.
parse_source_reversed(source, path, answer) ==
    LET parsed == parse(source, "Module", unwrap_or(to_str(path), "<unknown>"), answer)
    IN  [parses |-> <<source>>,
         result |->
            IF ~parsed.ok THEN Err(convert_parse_error(parsed.err, source, path))
            ELSE CASE parsed.mod.variant = "Module" -> Ok(Reverse(parsed.mod.body))
                   [] parsed.mod.variant = "Expression" ->
                        Ok(<<StmtExpr(TextRange_default, parsed.mod.body)>>)
                   [] OTHER -> Ok(<<>>)]

\* The Expression variant left to the wildcard arm.
parse_source_no_expression_arm(source, path, answer) ==
    LET parsed == parse(source, "Module", unwrap_or(to_str(path), "<unknown>"), answer)
    IN  [parses |-> <<source>>,
         result |->
            IF ~parsed.ok THEN Err(convert_parse_error(parsed.err, source, path))
            ELSE CASE parsed.mod.variant = "Module" -> Ok(parsed.mod.body)
                   [] OTHER -> Ok(<<>>)]

\* The path of the previous call kept and used for the location.
parse_source_keeps_path(source, path, answer) ==
    LET parsed == parse(source, "Module", unwrap_or(to_str(path), "<unknown>"), answer)
        kept == IF last.op = "none" THEN path ELSE last.path
    IN  [parses |-> <<source>>,
         result |->
            IF ~parsed.ok THEN Err(convert_parse_error(parsed.err, source, kept))
            ELSE CASE parsed.mod.variant = "Module" -> Ok(parsed.mod.body)
                   [] parsed.mod.variant = "Expression" ->
                        Ok(<<StmtExpr(TextRange_default, parsed.mod.body)>>)
                   [] OTHER -> Ok(<<>>)]

parse_source(source, path, answer) ==
    LET parsed == parse(source, "Module", unwrap_or(to_str(path), "<unknown>"), answer)
    IN  [parses |-> <<source>>,
         result |->
            IF ~parsed.ok THEN Err(convert_parse_error(parsed.err, source, path))
            ELSE CASE parsed.mod.variant = "Module" -> Ok(parsed.mod.body)
                   [] parsed.mod.variant = "Expression" ->
                        Ok(<<StmtExpr(TextRange_default, parsed.mod.body)>>)
                   [] OTHER -> Ok(<<>>)]

\* fs::read_to_string(path): the text of the file, or an io::Error.
ReadOutcomes ==
    {[ok |-> TRUE, text |-> t] : t \in Sources}
    \cup {[ok |-> FALSE, error |-> e] : e \in IoErrors}

\* The text parse_file would parse: the text read, the empty text otherwise.
TextOf(read) == IF read.ok THEN read.text ELSE <<>>

\* A failed read taken for an empty file.
parse_file_unwrap_or_default(path, read, answer) ==
    parse_source(TextOf(read), path, answer)

parse_file(path, read, answer) ==
    IF ~read.ok THEN [parses |-> <<>>, result |-> Err(IoError(read.error))]
    ELSE parse_source(read.text, path, answer)

\* oracle after the external parser has answered the texts of parses.
Answered(parses, answer) ==
    IF parses = <<>> THEN oracle
    ELSE [t \in DOMAIN oracle \cup {parses[1]} |->
            IF t = parses[1] THEN answer ELSE oracle[t]]

(***************************************************************************)
(* Spec: any sequence of parse_source and parse_file calls.                *)
(***************************************************************************)
Init ==
    /\ oracle = <<>>
    /\ last = NoCall
    /\ pinned = NoCall
    /\ PosIdle /\ RenderIdle /\ CliIdle

NoAnswer == [asked |-> FALSE]

Call(op, path, source, read, answer, r) ==
    [op |-> op, path |-> path, source |-> source, read |-> read,
     answer |-> IF r.parses = <<>> THEN NoAnswer ELSE answer,
     result |-> r.result, parses |-> r.parses]

\* pinned after one more call: since counts the calls made after the pinned
\* one, as 0, 1 or 2 for "two or more".
Later(p) == IF p.op = "none" THEN p
            ELSE [p EXCEPT !.since = IF p.since = 0 THEN 1 ELSE 2]

Pin(call) == [op |-> call.op, path |-> call.path, source |-> call.source,
              result |-> call.result, since |-> 0]

\* The call of parse_file(path) with what it reads and what the parser answers.
DoParseFile(path) ==
    \E read \in ReadOutcomes :
        \E answer \in AnswersNow(TextOf(read)) :
            LET call == Call("parse_file", path, TextOf(read), read, answer,
                             parse_file(path, read, answer))
            IN  /\ last' = call
                /\ oracle' = Answered(call.parses, answer)

ParseSource(source, path) ==
    \E answer \in AnswersNow(source) :
        LET call == Call("parse_source", path, source, [ok |-> TRUE, text |-> source],
                         answer, parse_source(source, path, answer))
        IN  /\ last' = call
            /\ oracle' = Answered(call.parses, answer)
            /\ pinned' \in {Later(pinned), Pin(call)}
            /\ UNCHANGED <<posVars, renderVars, cliVars>>

ParseFile(path) ==
    /\ DoParseFile(path)
    /\ pinned' = Later(pinned)
    /\ UNCHANGED <<posVars, renderVars, cliVars>>

Next ==
    \/ \E source \in Sources, path \in Paths : ParseSource(source, path)
    \/ \E path \in Paths : ParseFile(path)

Spec == Init /\ [][Next]_vars

\* The latest call handed its text to the external parser.
Parsed == last.op # "none" /\ last.parses # <<>>

\* C4: when the external parser fails with (offset, message), the result is a
\* failure holding a ParseError whose file is the path argument itself, whose
\* line and column are offset_to_line_col of the text and the offset, and whose
\* message is the parser's; the result holds no statement sequence.
C4_FailureIsLocatedParseError ==
    (Parsed /\ ~last.answer.ok) =>
        LET r == last.result
            lcol == offset_to_line_col(last.source, last.answer.offset)
        IN  /\ ~r.ok
            /\ DOMAIN r = {"ok", "error"}
            /\ r.error.kind = "ParseError"
            /\ r.error.location.file = last.path
            /\ r.error.location.line = lcol[1]
            /\ r.error.location.line =
                  Cardinality(TerminatorsBefore(last.source, last.answer.offset)) + 1
            /\ r.error.location.column = lcol[2]
            /\ r.error.message = last.answer.error

C4_Witness ==
    /\ Parsed /\ last.op = "parse_source" /\ ~last.answer.ok
    /\ ~last.path.valid
    /\ last.answer.offset = 4
    /\ last.result.error.location = SourceLocation(last.path, 2, 2)
    /\ last.result.error.message = "unexpected EOF"

\* C5: when the external parser answers with a module, the result is success
\* with the module's statement list as it is: same statements, order, length;
\* the empty text gives success with no statements.
C5_ModuleBodyVerbatim ==
    /\ (Parsed /\ last.answer.ok /\ last.answer.mod.variant = "Module") =>
            last.result = Ok(last.answer.mod.body)
    /\ (Parsed /\ last.source = <<>>) => last.result = Ok(<<>>)

C5_Witness ==
    /\ Parsed /\ last.answer.ok /\ last.answer.mod.variant = "Module"
    /\ last.answer.mod.body = <<Stmt("FunctionDef"), Stmt("AnnAssign")>>
    /\ last.result.ok /\ Len(last.result.value) = 2

\* C6: an Expression answer gives exactly one statement, an expression
\* statement wrapping the parsed expression; any other answer that is not a
\* module gives success with no statements.
C6_ExpressionWrappedOthersEmpty ==
    /\ (Parsed /\ last.answer.ok /\ last.answer.mod.variant = "Expression") =>
            /\ last.result.ok
            /\ Len(last.result.value) = 1
            /\ last.result.value[1].node = "Expr"
            /\ last.result.value[1].value = last.answer.mod.body
    /\ (Parsed /\ last.answer.ok
            /\ last.answer.mod.variant \in {"Interactive", "FunctionType"}) =>
            last.result = Ok(<<>>)

C6_Witness ==
    /\ Parsed /\ last.answer.ok /\ last.answer.mod.variant = "Expression"
    /\ last.answer.mod.body = "BinOp"
    /\ Len(last.result.value) = 1 /\ last.result.value[1].value = "BinOp"

C9_ParseFileReadThenParse ==
    last.op = "parse_file" =>
        IF ~last.read.ok
        THEN /\ last.result = Err(IoError(last.read.error))
             /\ "location" \notin DOMAIN last.result.error
             /\ last.parses = <<>>
        ELSE /\ last.parses = <<last.read.text>>
             /\ last.result = parse_source(last.read.text, last.path, last.answer).result

C9_Witness ==
    /\ last.op = "parse_file" /\ ~last.read.ok
    /\ last.read.error = "stream did not contain valid UTF-8"
    /\ last.result.error.kind = "IoError"
    /\ oracle = <<>>

(***************************************************************************)
(* The command dispatcher: one run of the process, from the parsed command *)
(* line to its exit.  Terminal colours are left out of the lines written.  *)
(***************************************************************************)
None == [some |-> FALSE]
Some(v) == [some |-> TRUE, value |-> v]

\* struct Cli { path: Option<PathBuf>, command: Option<Commands> }
Commands ==
    {[name |-> "Check", path |-> p] : p \in Paths}
    \cup {[name |-> "Parse", path |-> p] : p \in Paths}

Clis == {[path |-> p, command |-> c] :
            p \in {None} \cup {Some(x) : x \in Paths},
            c \in {None} \cup {Some(x) : x \in Commands}}

Line(text) == [line |-> text]

\* println!("{:#?}", ast)
DebugDump(ast) == [line |-> "{:#?}", value |-> ast]

\* Cli::command().print_help()
Help == [line |-> "Usage: pyrust-check [PATH] [COMMAND]"]

InitCli ==
    /\ cli \in Clis
    /\ pc = "main"
    /\ stdout = <<>>
    /\ stderr = <<>>
    /\ exitCode = -1
    /\ PosIdle /\ LibIdle /\ RenderIdle

\* The path handed to parse_command or check_command.
CommandPath == IF cli.command.some THEN cli.command.value.path ELSE cli.path.value

\* fn main: the match on cli.command.
Main ==
    /\ pc = "main"
    /\ IF cli.command.some
       THEN /\ pc' = (IF cli.command.value.name = "Parse"
                      THEN "parse_command" ELSE "check_command")
            /\ UNCHANGED <<stdout, stderr, exitCode>>
       ELSE IF cli.path.some
       THEN /\ pc' = "check_command"
            /\ UNCHANGED <<stdout, stderr, exitCode>>
       ELSE /\ stderr' = Append(stderr, Line("Error: Please provide a path to check"))
            /\ stdout' = Append(stdout, Help)
            /\ exitCode' = 1
            /\ pc' = "exited"
    /\ UNCHANGED <<cli, posVars, libVars, renderVars>>

\* fn parse_command: the banner, then the call of parse_file.
ParseCommand ==
    /\ pc = "parse_command"
    /\ stdout' = Append(stdout, Line("Parsing: " \o display(CommandPath)))
    /\ DoParseFile(CommandPath)
    /\ pc' = "parse_command_match"
    /\ UNCHANGED <<cli, stderr, exitCode, pinned, posVars, renderVars>>

\* The Ok arm of parse_command.
ParseCommandOk ==
    /\ pc = "parse_command_match"
    /\ last.result.ok
    /\ stdout' = stdout \o
          <<Line("U+2713 Parsed successfully"),
            Line("\nAST has " \o ToString(Len(last.result.value)) \o " statements"),
            DebugDump(last.result.value)>>
    /\ pc' = "main_return"
    /\ UNCHANGED <<cli, stderr, exitCode, posVars, libVars, renderVars>>

\* The Err arm without its std::process::exit(1).
ParseCommandErr_no_exit ==
    /\ pc = "parse_command_match"
    /\ ~last.result.ok
    /\ stderr' = Append(stderr,
          Line("U+2717 Parse error: " \o Display_PyRustError(last.result.error)))
    /\ pc' = "main_return"
    /\ UNCHANGED <<cli, stdout, exitCode, posVars, libVars, renderVars>>

\* The Err arm of parse_command.
ParseCommandErr ==
    /\ pc = "parse_command_match"
    /\ ~last.result.ok
    /\ stderr' = Append(stderr,
          Line("U+2717 Parse error: " \o Display_PyRustError(last.result.error)))
    /\ exitCode' = 1
    /\ pc' = "exited"
    /\ UNCHANGED <<cli, stdout, posVars, libVars, renderVars>>

\* fn check_command
CheckCommand ==
    /\ pc = "check_command"
    /\ stdout' = stdout \o
          <<Line("Checking: " \o display(CommandPath)),
            Line("Type checking not yet implemented")>>
    /\ pc' = "main_return"
    /\ UNCHANGED <<cli, stderr, exitCode, posVars, libVars, renderVars>>

\* main returns: the process ends with status 0.
MainReturn ==
    /\ pc = "main_return"
    /\ exitCode' = 0
    /\ pc' = "exited"
    /\ UNCHANGED <<cli, stdout, stderr, posVars, libVars, renderVars>>

NextCli ==
    \/ Main
    \/ ParseCommand
    \/ ParseCommandOk
    \/ ParseCommandErr
    \/ CheckCommand
    \/ MainReturn

SpecCli == InitCli /\ [][NextCli]_vars

IsParse == cli.command.some /\ cli.command.value.name = "Parse"

Written(stream, item) == \E n \in DOMAIN stream : stream[n] = item

\* item2 is written after item1.
WrittenInOrder(stream, item1, item2) ==
    \E n, m \in DOMAIN stream : n < m /\ stream[n] = item1 /\ stream[m] = item2

\* C10: for `parse <path>` the process exits with 0 exactly when parse_file
\* succeeded, having written the statement count and the dump of the result,
\* and with 1 exactly when parse_file failed, having written the rendered
\* diagnostic to the error stream; with no path and no subcommand it writes the
\* usage and exits with 1 without a call of the parser.
C10_ExitCodeFollowsParseResult ==
    pc = "exited" =>
        /\ IsParse =>
              /\ last.op = "parse_file" /\ last.path = cli.command.value.path
              /\ (exitCode = 0) <=> last.result.ok
              /\ (exitCode = 1) <=> ~last.result.ok
              /\ last.result.ok =>
                    WrittenInOrder(stdout,
                        Line("\nAST has " \o ToString(Len(last.result.value))
                                \o " statements"),
                        DebugDump(last.result.value))
              /\ ~last.result.ok =>
                    Written(stderr, Line("U+2717 Parse error: "
                                \o Display_PyRustError(last.result.error)))
        /\ (~cli.command.some /\ ~cli.path.some) =>
              /\ exitCode = 1
              /\ Written(stdout, Help)
              /\ last = NoCall /\ oracle = <<>>

C10_Witness ==
    /\ pc = "exited" /\ IsParse /\ exitCode = 1
    /\ last.result.error.kind = "ParseError"
    /\ last.result.error.location.line = 2
    /\ Len(stderr) = 1 /\ Len(stdout) = 1

====
